---- MODULE Spec2Model ----
(***************************************************************************)
(* Model of the switchmap-ng topology polling agent (bin/topology.py):     *)
(* the PollingAgent start-up reset of the cache directory, the endless     *)
(* query loop, the per-cycle multiprocessing Pool that maps                *)
(* poll_single_device over the configured hostnames, and the per-host      *)
(* Poller that validates credentials, collects the data, writes it to a    *)
(* scratch file and renames it into the cache directory.                   *)
(* Two more processes have a specification of their own: the installer     *)
(* that resolves and writes the configuration (maintenance/install.py,     *)
(* InstallSpec) and the search route of the web server                     *)
(* (switchmap/www/routes/pages/search.py, SearchSpec).                     *)
(***************************************************************************)
EXTENDS Integers, Sequences, FiniteSets, TLC

(***************************************************************************)
(* Bounds of the model.                                                    *)
(***************************************************************************)
\* Largest configured agent_threads (pool size); the smallest is 1.
MaxThreads == 2
\* Number of poll cycles followed.
MaxCycle == 2
\* Number of resolutions of the configuration the installer model follows.
MaxResolutions == 2

(***************************************************************************)
(* Program constants.                                                      *)
(***************************************************************************)
\* topology.py:93  delay = 3600
delay == 3600
\* install.py:283  polling_interval: 3600 of the seeded configuration.
DefaultPollingInterval == 3600

(***************************************************************************)
(* Files. A file is absent, empty (just opened for writing), partially     *)
(* written or complete; data identifies the snapshot it holds.             *)
(***************************************************************************)
Absent == [kind |-> "absent", data |-> 0]
Empty == [kind |-> "empty", data |-> 0]
Partial(d) == [kind |-> "partial", data |-> d]
Complete(d) == [kind |-> "complete", data |-> d]

\* The devices of the network, in the order the configuration lists them.
HostList == <<"switch3", "switch1", "switch2">>

\* Every one of them may name a file of the cache directory
\* (topology_device_file(hostname)).
AllHosts == {HostList[i] : i \in 1..Len(HostList)}

\* config.hostnames(): the hostnames of the effective configuration, a
\* duplicate-free list: none, some or all of the devices.
ConfigHostnames == {SubSeq(HostList, 1, n) : n \in 0..Len(HostList)}

\* config.agent_threads(): the size of the pool, at least 1.
ConfigAgentThreads == 1..MaxThreads

\* main.polling_interval of the configuration: not set, or set to a number
\* of seconds (one minute here).
ConfigPollingInterval == {<<>>, <<60>>}

\* The polling interval of the effective configuration.
polling_interval_of(c) == IF c = <<>> THEN DefaultPollingInterval ELSE c[1]

VARIABLES
    orch,              \* position of the PollingAgent: new, idle, dispatching,
                       \* draining, sleeping, crashed
    cycle,             \* number of the current poll cycle, 0 before the first
    hostnames,         \* config.hostnames()
    agent_threads,     \* config.agent_threads()
    polling_interval,  \* main.polling_interval of the configuration
    dirExists,         \* os.path.isdir(cache_directory)
    cache,             \* the files of the cache directory, by hostname
    task,              \* the tasks of the current pool.map, by list position
    tmpdir,            \* the mkdtemp() directory of each task exists
    tmpfile,           \* the temp_file of each task
    slept,             \* the length of the last agent_sleep, 0 before any
    resolutions,       \* the number of configuration.Config() objects built
    inst,              \* the installer (maintenance/install.py, _Config)
    web                \* the search route of the web server (pages/search.py)

vars == <<orch, cycle, hostnames, agent_threads, polling_interval, dirExists,
          cache, task, tmpdir, tmpfile, slept, resolutions, inst, web>>

\* The installer and the web server are processes of their own; the polling
\* agent touches neither.
elsewhere == <<inst, web>>

config == <<hostnames, agent_threads, polling_interval>>

(***************************************************************************)
(* The pool.                                                               *)
(***************************************************************************)
\* Positions of poll_single_device at which a worker is executing it.
RunningPcs == {"init", "query", "mkdtemp", "everything", "open", "write",
               "rename", "rmdir"}
\* Positions at which the call has ended for good.
EndedPcs == {"done", "skipped", "failed", "killed", "dropped"}

Tasks == DOMAIN task
InFlight == {i \in Tasks : task[i].pc \in RunningPcs}
Queued == {i \in Tasks : task[i].pc = "queued"}
Failed == {i \in Tasks : task[i].pc = "failed"}

\* Pool._map_async: chunksize, extra = divmod(len(iterable), len(pool) * 4);
\* if extra: chunksize += 1.
ChunkSize(len, n) ==
    IF len = 0 THEN 0
    ELSE (len \div (n * 4)) + (IF len % (n * 4) # 0 THEN 1 ELSE 0)

chunksize == ChunkSize(Len(hostnames), agent_threads)
FirstOfChunk(i) == (i - 1) % chunksize = 0
SameChunk(i, j) == (i - 1) \div chunksize = (j - 1) \div chunksize

\* A pool that starts one worker per element of the iterable.
PoolWorkerPerTask == Cardinality(InFlight) < Len(hostnames)

\* Pool(processes=threads_in_pool): a task is taken only by an idle worker.
PoolHasIdleWorker == Cardinality(InFlight) < agent_threads

\* A map that returns as soon as the workers have taken every task.
AllTasksTaken == Queued = {}

\* pool.map blocks until every task of the map has run.
AllTasksReady == \A i \in Tasks : task[i].pc \in {"done", "skipped"}

\* A map that leaves out the last element of the list.
MapTasksButLast(names) ==
    [i \in 1..(Len(names) - 1) |->
        [pc |-> "queued", hostname |-> names[i], snmp_params |-> FALSE,
         data |-> 0, prior |-> Absent, at |-> "queued"]]

\* The tasks pool.map creates: one call of poll_single_device per element.
MapTasks(names) ==
    [i \in 1..Len(names) |->
        [pc |-> "queued", hostname |-> names[i], snmp_params |-> FALSE,
         data |-> 0, prior |-> Absent, at |-> "queued"]]

\* A worker that is given the first element of the list, whatever the task.
BeginWithFirstHostname(t, i) ==
    [t EXCEPT ![i].pc = "init", ![i].hostname = hostnames[1],
              ![i].prior = cache[hostnames[1]]]

\* A worker begins poll_single_device(hostname) for task i. prior keeps the
\* cache file of the host as it is at that moment, and at the statement at
\* which the call ended.
Begin(t, i) ==
    [t EXCEPT ![i].pc = "init", ![i].prior = cache[t[i].hostname]]

\* The call for task i ends with the given outcome. The worker goes on with
\* the next element of its chunk; an exception ends the whole chunk.
Finish(i, outcome) ==
    [j \in Tasks |->
        IF j = i THEN [task[i] EXCEPT !.pc = outcome, !.at = task[i].pc]
        ELSE IF SameChunk(i, j) /\ j > i /\ outcome = "failed"
             THEN [task[j] EXCEPT !.pc = "dropped"]
        ELSE IF SameChunk(i, j) /\ j = i + 1 /\ outcome # "failed"
             THEN Begin(task, j)[j]
        ELSE task[j]]

(***************************************************************************)
(* The installer (maintenance/install.py, class _Config): YAML values.     *)
(* A mapping is a function of its keys; a key a file does not hold is not  *)
(* in the domain. A list is a sequence.                                    *)
(***************************************************************************)
SAMPLE_SNMPv2 == [group_name |-> "SAMPLE_SNMPv2", snmp_community |-> "SAMPLE"]
SAMPLE_SNMPv3 == [group_name |-> "SAMPLE_SNMPv3", snmp_community |-> ""]

\* yaml.load(config): the configuration every resolution starts from. The
\* two hostnames are the text None the template is formatted with.
seed_config_dict ==
    [main |-> [hostnames |-> <<"None", "None">>, log_level |-> "debug"],
     snmp_groups |-> <<SAMPLE_SNMPv2, SAMPLE_SNMPv3>>]

\* The hostnames lists a fragment may hold: up to two names, also twice the
\* same one.
FragmentNames == {"a", "b", "c"}
FragmentHostnames ==
    {<<>>} \cup {<<x>> : x \in FragmentNames}
           \cup {<<x, y>> : x, y \in FragmentNames}

\* The main sections a fragment may hold.
FragmentMains ==
    {[hostnames |-> h] : h \in FragmentHostnames}
    \cup {[hostnames |-> h, log_level |-> "info"] : h \in FragmentHostnames}
    \cup {[extra_list |-> <<"x", "x">>],
          [hostnames |-> <<"a">>, extra_list |-> <<"y">>]}

\* The snmp_groups lists a fragment may hold: a group of its own, two groups
\* of one name, a group with the name of a seeded one.
Group(name, community) == [group_name |-> name, snmp_community |-> community]
FragmentGroups ==
    {<<Group("g1", "x")>>, <<Group("g1", "y"), Group("g1", "x")>>,
     <<Group("SAMPLE_SNMPv2", "x"), Group("g2", "x")>>}

\* The fragments (.yaml files) a configuration directory may hold; one of
\* them has a list of its own at the top level.
Fragments ==
    {[main |-> m] : m \in FragmentMains}
    \cup {[snmp_groups |-> g] : g \in FragmentGroups}
    \cup {[extra_lists |-> <<"z">>]}
    \cup {[main |-> m, snmp_groups |-> g] :
              m \in FragmentMains, g \in FragmentGroups}

\* A directory of general.config_directories(): it exists or not, and holds
\* its .yaml files in the order they are read.
NoDirectory == [exists |-> FALSE, files |-> <<>>]
Directory(files) == [exists |-> TRUE, files |-> files]
SmallFragments ==
    {[main |-> [hostnames |-> <<"a">>]],
     [main |-> [hostnames |-> <<"b">>, log_level |-> "info"]],
     [snmp_groups |-> <<Group("g1", "y")>>]}
Directories ==
    {NoDirectory, Directory(<<>>)}
    \cup {Directory(<<f>>) : f \in Fragments}
    \cup {Directory(<<f, g>>) : f, g \in SmallFragments}

\* general.config_directories(): two directories, the first of them the one
\* _Config.write writes to.
config_directories == {<<d1, d2>> : d1, d2 \in Directories}

\* The orders in which a dict may hand out its keys.
Orders(keys) ==
    {s \in [1..Cardinality(keys) -> keys] : \A k \in keys : \E i \in DOMAIN s : s[i] = k}

\* dict[key] = value
Put(dict, key, value) ==
    [k \in DOMAIN dict \cup {key} |-> IF k = key THEN value ELSE dict[k]]

\* isinstance(value, list) of the value of a key of main, and
\* isinstance(_file_value, dict) of the value of a top-level key.
IsList(sub_key) == sub_key \in {"hostnames", "extra_list"}
IsDict(file_key) == file_key = "main"

\* _Config.__init__: one entry of valid_directories for every .yaml file of
\* every existing directory, from directory k on.
RECURSIVE valid_directories(_, _)
valid_directories(directories, k) ==
    IF k > Len(directories) THEN <<>>
    ELSE (IF directories[k].exists
          THEN [j \in 1..Len(directories[k].files) |-> k]
          ELSE <<>>) \o valid_directories(directories, k + 1)

\* One more file read into what general.read_yaml_files returns: the lists of
\* a key follow each other, of two scalars the later one stays.
ReadMain(read, main) ==
    [k \in DOMAIN read \cup DOMAIN main |->
        IF k \notin DOMAIN main THEN read[k]
        ELSE IF k \notin DOMAIN read THEN main[k]
        ELSE IF IsList(k) THEN read[k] \o main[k]
        ELSE main[k]]

ReadFile(read, file) ==
    [k \in DOMAIN read \cup DOMAIN file |->
        IF k \notin DOMAIN file THEN read[k]
        ELSE IF k \notin DOMAIN read THEN file[k]
        ELSE IF IsDict(k) THEN ReadMain(read[k], file[k])
        ELSE read[k] \o file[k]]

RECURSIVE ReadFiles(_, _)
ReadFiles(read, files) ==
    IF files = <<>> THEN read
    ELSE ReadFiles(ReadFile(read, Head(files)), Tail(files))

\* general.read_yaml_files(valid_directories): the files of the listed
\* directories, read in the order of the list.
RECURSIVE read_yaml_files(_, _, _)
read_yaml_files(valid, directories, read) ==
    IF valid = <<>> THEN read
    ELSE read_yaml_files(Tail(valid), directories,
                         ReadFiles(read, directories[Head(valid)].files))

\* hostname not in existing_hostnames
Holds(list, item) == \E k \in DOMAIN list : list[k] = item

\* An extend of the list by the found hostnames, whatever it holds.
extend_hostnames(existing_hostnames, found_hostnames) ==
    existing_hostnames \o found_hostnames

\* for hostname in found_hostnames: append it if it is not in the list yet.
RECURSIVE append_hostnames(_, _)
append_hostnames(existing_hostnames, found_hostnames) ==
    IF found_hostnames = <<>> THEN existing_hostnames
    ELSE append_hostnames(
             IF Holds(existing_hostnames, Head(found_hostnames))
             THEN existing_hostnames
             ELSE Append(existing_hostnames, Head(found_hostnames)),
             Tail(found_hostnames))

\* A search for the item itself instead of its group_name.
snmp_group_same(item, listing) == \E k \in DOMAIN listing : listing[k] = item

\* _snmp_group_found(item, listing): a group of the list has item's group_name.
snmp_group_found(item, listing) ==
    \E k \in DOMAIN listing : listing[k].group_name = item.group_name

\* for item in _file_value: append it if _snmp_group_found is False.
RECURSIVE append_snmp_groups(_, _)
append_snmp_groups(listing, found) ==
    IF found = <<>> THEN listing
    ELSE append_snmp_groups(
             IF snmp_group_found(Head(found), listing)
             THEN listing
             ELSE Append(listing, Head(found)),
             Tail(found))

\* An assignment that also starts the hostnames list of the section anew.
set_scalar_only(config_dict, file_key, sub_key, value) ==
    [config_dict EXCEPT
        ![file_key] = Put(Put(@, "hostnames", <<>>), sub_key, value)]

\* self.config_dict[_file_key][_sub_key] = value
set_scalar(config_dict, file_key, sub_key, value) ==
    [config_dict EXCEPT ![file_key] = Put(@, sub_key, value)]

\* What is left of config_dict when a statement of the constructor raises:
\* no _Config object.
Raised == <<>>
HasRaised(config_dict) == DOMAIN config_dict = {}

\* The body of "for _sub_key, value in _file_value.items()". The extend of
\* a list raises KeyError when the seeded section does not hold the key.
merge_sub_key(config_dict, file_key, sub_key, value) ==
    IF ~IsList(sub_key)
    THEN set_scalar(config_dict, file_key, sub_key, value)
    ELSE IF sub_key = "hostnames"
    THEN [config_dict EXCEPT
             ![file_key] = Put(@, sub_key, append_hostnames(@[sub_key], value))]
    ELSE IF sub_key \in DOMAIN config_dict[file_key]
    THEN [config_dict EXCEPT ![file_key] = Put(@, sub_key, @[sub_key] \o value)]
    ELSE Raised

RECURSIVE merge_sub_keys(_, _, _, _)
merge_sub_keys(config_dict, file_key, file_value, order) ==
    IF order = <<>> \/ HasRaised(config_dict) THEN config_dict
    ELSE merge_sub_keys(
             merge_sub_key(config_dict, file_key, Head(order),
                           file_value[Head(order)]),
             file_key, file_value, Tail(order))

\* The body of "for _file_key, _file_value in directory_dict.items()"; sub is
\* the order in which a section hands out its keys. The extend of a list
\* raises KeyError when the seeded configuration does not hold the key.
merge_file_key(config_dict, file_key, file_value, sub) ==
    IF IsDict(file_key)
    THEN merge_sub_keys(config_dict, file_key, file_value, sub)
    ELSE IF file_key = "snmp_groups"
    THEN [config_dict EXCEPT
             ![file_key] = append_snmp_groups(@, file_value)]
    ELSE IF file_key \in DOMAIN config_dict
    THEN [config_dict EXCEPT ![file_key] = @ \o file_value]
    ELSE Raised

RECURSIVE merge_file_keys(_, _, _, _)
merge_file_keys(config_dict, directory_dict, order, sub) ==
    IF order = <<>> \/ HasRaised(config_dict) THEN config_dict
    ELSE merge_file_keys(
             merge_file_key(config_dict, Head(order),
                            directory_dict[Head(order)], sub),
             directory_dict, Tail(order), sub)

\* What a resolution reads from the directories: nothing when there is no
\* valid directory.
directory_dict(directories) ==
    read_yaml_files(valid_directories(directories, 1), directories, <<>>)

SubKeys(dict) == IF "main" \in DOMAIN dict THEN DOMAIN dict["main"] ELSE {}

\* yaml.dump(self.config_dict) as the file config.yaml: the text of every
\* key and value of the dict, which yaml.load reads back as that key and
\* value.
config_yaml(config_dict) ==
    [k \in DOMAIN config_dict |->
        IF IsDict(k)
        THEN [s \in DOMAIN config_dict[k] |-> config_dict[k][s]]
        ELSE [j \in DOMAIN config_dict[k] |-> config_dict[k][j]]]

\* The installer before _Config is built, with the directories it finds,
\* and where no installer runs.
NoConfig == <<>>
Installer(directories) ==
    [pc |-> "start", directories |-> directories, config_dict |-> NoConfig,
     resolved |-> <<>>]
NotInstalling == Installer(<<>>)

(***************************************************************************)
(* The search route (switchmap/www/routes/pages/search.py, index).         *)
(* A text is the sequence of its characters.                               *)
(***************************************************************************)
Characters == {" ", "g"}
SearchTerms ==
    {<<>>} \cup {<<x>> : x \in Characters}
           \cup {<<x, y>> : x, y \in Characters}
           \cup {<<x, y, z>> : x, y, z \in Characters}

\* str.strip(): the text without the white space at its two ends.
RECURSIVE lstrip(_)
lstrip(text) ==
    IF text # <<>> /\ Head(text) = " " THEN lstrip(Tail(text)) ELSE text

RECURSIVE rstrip(_)
rstrip(text) ==
    IF text # <<>> /\ text[Len(text)] = " "
    THEN rstrip(SubSeq(text, 1, Len(text) - 1))
    ELSE text

strip(text) == rstrip(lstrip(text))

\* request.form: the fields of the posted form.
Forms == {<<>>} \cup {[search_term |-> t] : t \in SearchTerms}

\* What Search(search_term).find() may return: a list of {hostname: ifindex}
\* items, any match any number of times; nothing for the empty term.
Item(hostname, ifindex) == [h \in {hostname} |-> ifindex]
Items == {Item(h, n) : h \in {"switch1", "switch2"}, n \in {1, 2}}
find(search_term) ==
    IF search_term = <<>> THEN {<<>>}
    ELSE {<<>>} \cup {<<x>> : x \in Items}
                \cup {<<x, y>> : x, y \in Items}
                \cup {<<x, y, z>> : x, y, z \in Items}

\* for hostname, ifindex in item.items(): the ifindex goes to the end of the
\* list of the hostname.
devices_item(devices, item) ==
    LET hostname == CHOOSE h \in DOMAIN item : TRUE IN
    IF hostname \in DOMAIN devices
    THEN Put(devices, hostname, Append(devices[hostname], item[hostname]))
    ELSE Put(devices, hostname, <<item[hostname]>>)

\* for item in result
RECURSIVE devices_of(_, _)
devices_of(devices, result) ==
    IF result = <<>> THEN devices
    ELSE devices_of(devices_item(devices, Head(result)), Tail(result))

\* devices_tables: the ports of every found device, or the one entry
\* 'Not Found'.
NotFound == [k \in {"Not Found"} |-> <<>>]
devices_tables(devices) == IF devices # <<>> THEN devices ELSE NotFound

\* The route between two requests.
NoRequest ==
    [pc |-> "idle", form |-> <<>>, found |-> <<>>, result |-> <<>>,
     devices |-> <<>>, results_dict |-> <<>>]

(***************************************************************************)
(* Initial state: the process has not been constructed yet. The cache      *)
(* directory may or may not exist and holds any files of an earlier run.   *)
(***************************************************************************)
Stale == Complete(0)

Init ==
    /\ orch = "new"
    /\ cycle = 0
    /\ hostnames \in ConfigHostnames
    /\ agent_threads \in ConfigAgentThreads
    /\ polling_interval \in ConfigPollingInterval
    /\ dirExists \in BOOLEAN
    /\ cache \in [AllHosts -> {Absent, Stale}]
    /\ (~dirExists => cache = [h \in AllHosts |-> Absent])
    /\ task = MapTasks(<<>>)
    /\ tmpdir = [i \in 1..Len(hostnames) |-> FALSE]
    /\ tmpfile = [i \in 1..Len(hostnames) |-> Absent]
    /\ slept = 0
    /\ resolutions = 0
    /\ inst = NotInstalling
    /\ web = NoRequest

(***************************************************************************)
(* PollingAgent                                                            *)
(***************************************************************************)
\* general.delete_files(cache_directory): every file of the directory goes.
delete_files(files) == [h \in DOMAIN files |-> Absent]

\* A constructor that creates the directory when it is missing and leaves an
\* existing one as it is.
PollingAgent__init__keeping ==
    /\ orch = "new"
    /\ dirExists' = TRUE
    /\ orch' = "idle"
    /\ UNCHANGED <<elsewhere, resolutions, cycle, config, cache, task,
                   tmpdir, tmpfile, slept>>

\* PollingAgent.__init__: clean the cache directory, or create it.
PollingAgent__init__ ==
    /\ orch = "new"
    /\ IF dirExists
       THEN /\ cache' = delete_files(cache)
            /\ UNCHANGED dirExists
       ELSE /\ dirExists' = TRUE
            /\ UNCHANGED cache
    /\ orch' = "idle"
    /\ resolutions' = resolutions + 1
    /\ UNCHANGED <<elsewhere, cycle, config, task, tmpdir, tmpfile, slept>>

\* PollingAgent.query is called: the loop is entered.
PollingAgent_query ==
    /\ orch = "idle"
    /\ orch' = "dispatching"
    /\ UNCHANGED <<elsewhere, resolutions, cycle, config, dirExists, cache,
                   task, tmpdir, tmpfile, slept>>

\* A poll_devices that takes the configuration object of the agent instead
\* of building one.
poll_devices_server_config ==
    /\ orch = "dispatching"
    /\ cycle < MaxCycle
    /\ cycle' = cycle + 1
    /\ task' = MapTasks(hostnames)
    /\ orch' = "draining"
    /\ UNCHANGED <<elsewhere, resolutions, config, dirExists, cache, tmpdir,
                   tmpfile, slept>>

\* poll_devices up to the call of pool.map: config = configuration.Config()
\* is built, and the tasks are handed to the pool.
\* (The model follows the first MaxCycle cycles.)
poll_devices ==
    /\ orch = "dispatching"
    /\ cycle < MaxCycle
    /\ cycle' = cycle + 1
    /\ resolutions' = resolutions + 1
    /\ task' = MapTasks(hostnames)
    /\ orch' = "draining"
    /\ UNCHANGED <<elsewhere, config, dirExists, cache, tmpdir, tmpfile,
                   slept>>

\* pool.map returns, the pool is left and poll_devices returns;
\* query calls Agent.agent_sleep(self.name(), delay).
PoolMapReturns ==
    /\ orch = "draining"
    /\ AllTasksReady
    /\ orch' = "sleeping"
    /\ slept' = delay
    /\ UNCHANGED <<elsewhere, resolutions, cycle, config, dirExists, cache,
                   task, tmpdir, tmpfile>>

\* pool.map re-raises the exception of a task: at once in the interpreters
\* whose MapResult fails fast, after the last task in the others. Leaving the
\* with block terminates the workers, and nothing in poll_devices or in
\* PollingAgent.query catches the exception: the loop is over.
PoolMapRaises ==
    /\ orch = "draining"
    /\ Failed # {}
    /\ task' = [i \in Tasks |->
                   IF i \in InFlight
                   THEN [task[i] EXCEPT !.pc = "killed", !.at = task[i].pc]
                   ELSE task[i]]
    /\ orch' = "crashed"
    /\ UNCHANGED <<elsewhere, resolutions, cycle, config, dirExists, cache,
                   tmpdir, tmpfile, slept>>

\* Agent.agent_sleep returns and the loop starts over.
agent_sleep ==
    /\ orch = "sleeping"
    /\ orch' = "dispatching"
    /\ UNCHANGED <<elsewhere, resolutions, cycle, config, dirExists, cache,
                   task, tmpdir, tmpfile, slept>>

(***************************************************************************)
(* poll_single_device / Poller                                             *)
(***************************************************************************)
\* An idle worker takes the next chunk of the queue and calls
\* poll_single_device for its first element.
poll_single_device(i) ==
    /\ orch = "draining"
    /\ task[i].pc = "queued"
    /\ FirstOfChunk(i)
    /\ \A j \in Tasks : (j < i /\ FirstOfChunk(j)) => task[j].pc # "queued"
    /\ PoolHasIdleWorker
    /\ task' = Begin(task, i)
    /\ UNCHANGED <<elsewhere, resolutions, orch, cycle, config, dirExists,
                   cache, tmpdir, tmpfile, slept>>

\* Poller.__init__: configuration.Config() and configuration.ConfigSNMP()
\* are built; validate.credentials() gives credentials, or nothing.
Poller__init__(i) ==
    /\ orch = "draining"
    /\ task[i].pc = "init"
    /\ resolutions' = resolutions + 1
    /\ \E found \in BOOLEAN :
          task' = [task EXCEPT ![i].pc = "query", ![i].snmp_params = found]
    /\ UNCHANGED <<elsewhere, orch, cycle, config, dirExists, cache, tmpdir,
                   tmpfile, slept>>

\* A query that removes the cache file of a host without credentials.
Poller_query_unlink(i) ==
    /\ orch = "draining"
    /\ task[i].pc = "query"
    /\ IF task[i].snmp_params
       THEN /\ task' = [task EXCEPT ![i].pc = "mkdtemp"]
            /\ UNCHANGED cache
       ELSE /\ task' = Finish(i, "skipped")
            /\ cache' = [cache EXCEPT ![task[i].hostname] = Absent]
    /\ UNCHANGED <<elsewhere, resolutions, orch, cycle, config, dirExists,
                   tmpdir, tmpfile, slept>>

\* Poller.query: _create_yaml with credentials, a log message without.
Poller_query(i) ==
    /\ orch = "draining"
    /\ task[i].pc = "query"
    /\ IF task[i].snmp_params
       THEN task' = [task EXCEPT ![i].pc = "mkdtemp"]
       ELSE task' = Finish(i, "skipped")
    /\ UNCHANGED <<elsewhere, resolutions, orch, cycle, config, dirExists,
                   cache, tmpdir, tmpfile, slept>>

\* _create_yaml: temp_dir = tempfile.mkdtemp()
create_yaml_mkdtemp(i) ==
    /\ orch = "draining"
    /\ task[i].pc = "mkdtemp"
    /\ tmpdir' = [tmpdir EXCEPT ![i] = TRUE]
    /\ task' = [task EXCEPT ![i].pc = "everything"]
    /\ UNCHANGED <<elsewhere, resolutions, orch, cycle, config, dirExists,
                   cache, tmpfile, slept>>

\* _create_yaml: data = status.everything(); yaml_string = dict2yaml(data)
create_yaml_everything(i) ==
    /\ orch = "draining"
    /\ task[i].pc = "everything"
    /\ task' = [task EXCEPT ![i].pc = "open", ![i].data = cycle]
    /\ UNCHANGED <<elsewhere, resolutions, orch, cycle, config, dirExists,
                   cache, tmpdir, tmpfile, slept>>

\* An open of perm_file instead of temp_file: the data is written in place.
create_yaml_open_perm_file(i) ==
    /\ orch = "draining"
    /\ task[i].pc = "open"
    /\ cache' = [cache EXCEPT ![task[i].hostname] = Empty]
    /\ tmpfile' = [tmpfile EXCEPT ![i] = Empty]
    /\ task' = [task EXCEPT ![i].pc = "write"]
    /\ UNCHANGED <<elsewhere, resolutions, orch, cycle, config, dirExists,
                   tmpdir, slept>>

\* _create_yaml: open(temp_file, 'w') creates the empty scratch file.
create_yaml_open(i) ==
    /\ orch = "draining"
    /\ task[i].pc = "open"
    /\ tmpfile' = [tmpfile EXCEPT ![i] = Empty]
    /\ task' = [task EXCEPT ![i].pc = "write"]
    /\ UNCHANGED <<elsewhere, resolutions, orch, cycle, config, dirExists,
                   cache, tmpdir, slept>>

\* _create_yaml: file_handle.write(yaml_string) and the close of the file;
\* the content reaches the scratch file piece by piece.
create_yaml_write(i) ==
    /\ orch = "draining"
    /\ task[i].pc = "write"
    /\ IF tmpfile[i].kind = "empty"
       THEN /\ tmpfile' = [tmpfile EXCEPT ![i] = Partial(task[i].data)]
            /\ UNCHANGED task
       ELSE /\ tmpfile' = [tmpfile EXCEPT ![i] = Complete(task[i].data)]
            /\ task' = [task EXCEPT ![i].pc = "rename"]
    /\ UNCHANGED <<elsewhere, resolutions, orch, cycle, config, dirExists,
                   cache, tmpdir, slept>>

\* A move that copies the scratch file over perm_file piece by piece
\* (shutil.move between file systems) instead of renaming it.
create_yaml_move(i) ==
    /\ orch = "draining"
    /\ task[i].pc = "rename"
    /\ IF cache[task[i].hostname] = Partial(task[i].data)
       THEN /\ cache' = [cache EXCEPT ![task[i].hostname] = tmpfile[i]]
            /\ tmpfile' = [tmpfile EXCEPT ![i] = Absent]
            /\ task' = [task EXCEPT ![i].pc = "rmdir"]
       ELSE /\ cache' = [cache EXCEPT ![task[i].hostname] = Partial(task[i].data)]
            /\ UNCHANGED <<tmpfile, task>>
    /\ UNCHANGED <<elsewhere, resolutions, orch, cycle, config, dirExists,
                   tmpdir, slept>>

\* _create_yaml: os.rename(temp_file, perm_file), atomic.
create_yaml_rename(i) ==
    /\ orch = "draining"
    /\ task[i].pc = "rename"
    /\ cache' = [cache EXCEPT ![task[i].hostname] = tmpfile[i]]
    /\ tmpfile' = [tmpfile EXCEPT ![i] = Absent]
    /\ task' = [task EXCEPT ![i].pc = "rmdir"]
    /\ UNCHANGED <<elsewhere, resolutions, orch, cycle, config, dirExists,
                   tmpdir, slept>>

\* _create_yaml: os.rmdir(temp_dir); poll_single_device returns.
create_yaml_rmdir(i) ==
    /\ orch = "draining"
    /\ task[i].pc = "rmdir"
    /\ tmpdir' = [tmpdir EXCEPT ![i] = FALSE]
    /\ task' = Finish(i, "done")
    /\ UNCHANGED <<elsewhere, resolutions, orch, cycle, config, dirExists,
                   cache, tmpfile, slept>>

\* The statement task i is about to execute raises (validation, mkdtemp,
\* collection, open, write, rename or rmdir); the validation of
\* Poller.__init__ comes after its configuration objects are built. Nothing in Poller or in
\* poll_single_device catches it: the call ends with the exception, and
\* whatever the task had created stays as it is.
RaisingPcs == RunningPcs \ {"query"}

TaskRaises(i) ==
    /\ orch = "draining"
    /\ task[i].pc \in RaisingPcs
    /\ task' = Finish(i, "failed")
    /\ resolutions' = resolutions + (IF task[i].pc = "init" THEN 1 ELSE 0)
    /\ UNCHANGED <<elsewhere, orch, cycle, config, dirExists, cache, tmpdir,
                   tmpfile, slept>>

Step(i) ==
    \/ poll_single_device(i)
    \/ Poller__init__(i)
    \/ Poller_query(i)
    \/ create_yaml_mkdtemp(i)
    \/ create_yaml_everything(i)
    \/ create_yaml_open(i)
    \/ create_yaml_write(i)
    \/ create_yaml_rename(i)
    \/ create_yaml_rmdir(i)

Next ==
    \/ PollingAgent__init__
    \/ PollingAgent_query
    \/ poll_devices
    \/ PoolMapReturns
    \/ PoolMapRaises
    \/ agent_sleep
    \/ \E i \in Tasks : Step(i)
    \/ \E i \in Tasks : TaskRaises(i)

Spec == Init /\ [][Next]_vars

\* The steps the interpreter takes by itself; whether a statement raises is
\* up to the environment.
Progress ==
    \/ PollingAgent__init__
    \/ PollingAgent_query
    \/ poll_devices
    \/ PoolMapReturns
    \/ PoolMapRaises
    \/ agent_sleep
    \/ \E i \in Tasks : Step(i)

\* Every process that can take a step eventually takes one, and
\* Agent.agent_sleep returns.
FairSpec == Spec /\ WF_vars(Progress)

(***************************************************************************)
(* The installer: _Config.__init__, validate and write, as main calls      *)
(* them.                                                                   *)
(***************************************************************************)
agent == <<orch, cycle, hostnames, agent_threads, polling_interval, dirExists,
           cache, task, tmpdir, tmpfile, slept, resolutions>>

\* The polling agent where it does not run.
AgentNotStarted ==
    /\ orch = "new"
    /\ cycle = 0
    /\ hostnames = <<>>
    /\ agent_threads = 1
    /\ polling_interval = <<>>
    /\ dirExists = FALSE
    /\ cache = [h \in AllHosts |-> Absent]
    /\ task = MapTasks(<<>>)
    /\ tmpdir = <<>>
    /\ tmpfile = <<>>
    /\ slept = 0
    /\ resolutions = 0

InstallInit ==
    /\ AgentNotStarted
    /\ inst \in {Installer(d) : d \in config_directories}
    /\ web = NoRequest

\* A constructor that dies when the directories hold no main section.
Config__init__or_die ==
    /\ inst.pc \in {"start", "resolved"}
    /\ Len(inst.resolved) < MaxResolutions
    /\ LET read == directory_dict(inst.directories) IN
       \E order \in Orders(DOMAIN read), sub \in Orders(SubKeys(read)) :
          LET config_dict ==
                  IF "main" \in DOMAIN read
                  THEN merge_file_keys(seed_config_dict, read, order, sub)
                  ELSE NoConfig IN
          inst' = [inst EXCEPT
                      !.pc = IF "main" \in DOMAIN read
                             THEN "resolved" ELSE "crashed",
                      !.config_dict = config_dict,
                      !.resolved = Append(@,
                          [directories |-> inst.directories,
                           config_dict |-> config_dict])]
    /\ UNCHANGED <<agent, web>>

\* _Config.__init__: the seeded configuration, and merged into it what the
\* valid directories hold. resolved keeps every resolution with the
\* directories it was made from. When the merge raises, the exception ends
\* the constructor and with it main(): there is no resolution. (The model
\* follows the first MaxResolutions resolutions.)
Config__init__ ==
    /\ inst.pc \in {"start", "resolved"}
    /\ Len(inst.resolved) < MaxResolutions
    /\ LET read == directory_dict(inst.directories) IN
       \E order \in Orders(DOMAIN read), sub \in Orders(SubKeys(read)) :
          LET config_dict ==
                  merge_file_keys(seed_config_dict, read, order, sub) IN
          IF HasRaised(config_dict)
          THEN inst' = [inst EXCEPT !.pc = "raised", !.config_dict = NoConfig]
          ELSE inst' = [inst EXCEPT
                           !.pc = "resolved",
                           !.config_dict = config_dict,
                           !.resolved = Append(@,
                               [directories |-> inst.directories,
                                config_dict |-> config_dict])]
    /\ UNCHANGED <<agent, web>>

\* _Config.validate: pass.
Config_validate ==
    /\ inst.pc = "resolved"
    /\ inst' = [inst EXCEPT !.pc = "validated"]
    /\ UNCHANGED <<agent, web>>

\* general.delete_yaml_files(directory): the .yaml files of the directory go.
delete_yaml_files(directory) == [directory EXCEPT !.files = <<>>]

\* A write that deletes the .yaml files of self.directories[0] only.
Config_write_first_directory ==
    /\ inst.pc = "validated"
    /\ LET deleted == [inst.directories EXCEPT ![1] = delete_yaml_files(@)] IN
       IF inst.directories[1].exists
       THEN inst' = [inst EXCEPT
                        !.pc = "written",
                        !.directories =
                            [deleted EXCEPT
                                ![1].files = <<config_yaml(inst.config_dict)>>]]
       ELSE inst' = [inst EXCEPT !.pc = "crashed", !.directories = deleted]
    /\ UNCHANGED <<agent, web>>

\* _Config.write: the .yaml files of every directory are deleted, then
\* config.yaml is written to self.directories[0]; open() raises when that
\* directory does not exist.
Config_write ==
    /\ inst.pc = "validated"
    /\ LET deleted == [k \in DOMAIN inst.directories |->
                          delete_yaml_files(inst.directories[k])] IN
       IF inst.directories[1].exists
       THEN inst' = [inst EXCEPT
                        !.pc = "written",
                        !.directories =
                            [deleted EXCEPT
                                ![1].files = <<config_yaml(inst.config_dict)>>]]
       ELSE inst' = [inst EXCEPT !.pc = "crashed", !.directories = deleted]
    /\ UNCHANGED <<agent, web>>

\* install.py is run again.
install_main ==
    /\ inst.pc = "written"
    /\ Len(inst.resolved) < MaxResolutions
    /\ inst' = [inst EXCEPT !.pc = "start", !.config_dict = NoConfig]
    /\ UNCHANGED <<agent, web>>

InstallNext ==
    \/ Config__init__
    \/ Config_validate
    \/ Config_write
    \/ install_main

InstallSpec == InstallInit /\ [][InstallNext]_vars

(***************************************************************************)
(* The search route.                                                       *)
(***************************************************************************)
SearchInit ==
    /\ AgentNotStarted
    /\ inst = NotInstalling
    /\ web = NoRequest

\* A form is posted to the route.
post ==
    /\ web.pc \in {"idle", "rendered"}
    /\ \E form \in Forms : web' = [NoRequest EXCEPT !.pc = "posted", !.form = form]
    /\ UNCHANGED <<agent, inst>>

\* index(): the term is stripped, Search(search_term).find() is called, the
\* matches are collected by hostname, and the page is rendered. found keeps
\* the terms find() was called with, and result what it returned.
index ==
    /\ web.pc = "posted"
    /\ IF "search_term" \in DOMAIN web.form
       THEN LET search_term == strip(web.form["search_term"]) IN
            \E result \in find(search_term) :
               LET devices == devices_of(<<>>, result) IN
               web' = [web EXCEPT
                          !.pc = "rendered",
                          !.found = <<search_term>>,
                          !.result = result,
                          !.devices = devices,
                          !.results_dict = devices_tables(devices)]
       ELSE web' = [web EXCEPT !.pc = "rendered", !.results_dict = NotFound]
    /\ UNCHANGED <<agent, inst>>

SearchNext ==
    \/ post
    \/ index

SearchSpec == SearchInit /\ [][SearchNext]_vars

(***************************************************************************)
(* Properties                                                              *)
(***************************************************************************)
\* CacheStore.ReadAll(): the (hostname, file) pairs of the cache directory.
ReadAll == {<<h, cache[h]>> : h \in {g \in AllHosts : cache[g].kind # "absent"}}

\* The hostnames of the configuration.
Configured == {hostnames[i] : i \in 1..Len(hostnames)}

\* C1: at every moment the number of poll_single_device calls in flight is
\* at most the configured agent_threads.
C1_BoundedConcurrency == Cardinality(InFlight) <= agent_threads

\* Every worker of the pool is busy and hosts are still waiting.
C1_Witness == Cardinality(InFlight) = agent_threads /\ Queued # {}

\* C2: a reader of the cache directory sees for every hostname no file or a
\* complete one, and for the host of a task that has begun, the file the
\* task found when it began or the complete snapshot of this cycle; this
\* also when the task has stopped anywhere before its rename.
C2_NoTornRead ==
    /\ \A h \in AllHosts : cache[h].kind \in {"absent", "complete"}
    /\ \A i \in Tasks :
          task[i].pc \in (RunningPcs \cup {"done", "skipped", "failed", "killed"})
          => cache[task[i].hostname] \in {task[i].prior, Complete(cycle)}

\* A task was stopped while its scratch file was empty or half written, and
\* the snapshot of the cycle before is still in the cache.
C2_Witness ==
    \E i \in Tasks :
        /\ task[i].pc \in {"failed", "killed"}
        /\ tmpfile[i].kind \in {"empty", "partial"}
        /\ task[i].prior.kind = "complete"
        /\ cache[task[i].hostname] = task[i].prior

\* C3: an exception in one host's task is swallowed at that task: the cycle
\* is not aborted, the task of no other host is stopped or left out, and the
\* loop of PollingAgent.query goes on.
C3_FailureSwallowed ==
    (\E i \in Tasks : task[i].pc = "failed")
    => /\ orch # "crashed"
       /\ \A j \in Tasks : task[j].pc \notin {"killed", "dropped"}

\* C4: cycles never overlap: while the agent sleeps or is about to dispatch,
\* no task of the cycle before is queued or in flight, and every task that
\* has begun belongs to the cycle being drained.
C4_NoOverlap ==
    /\ orch \in {"sleeping", "dispatching"} => InFlight = {} /\ Queued = {}
    /\ InFlight # {} => orch = "draining"
    /\ \A i \in InFlight : task[i].data \in {0, cycle}

\* A second cycle has tasks in flight, after a first one that was drained.
C4_Witness == cycle = 2 /\ Cardinality(InFlight) = agent_threads /\ slept = delay

\* C5: a host whose credentials came back empty has no cache write in the
\* cycle, and once the cycle is over every other host of the batch has been
\* polled to the end (written, skipped or ended by its own error).
C5_SkipWritesNothingOthersComplete ==
    \A i \in Tasks :
        task[i].pc = "skipped"
        => /\ cache[task[i].hostname] = task[i].prior
           /\ ~tmpdir[i] /\ tmpfile[i] = Absent
           /\ orch \in {"sleeping", "dispatching", "crashed"}
              => \A j \in Tasks : task[j].pc \in {"done", "skipped", "failed"}

\* Exactly one task of the map is for hostname h.
OneTaskFor(h) == Cardinality({i \in Tasks : task[i].hostname = h}) = 1

\* C6: in every cycle pool.map is given exactly one task per configured
\* hostname, and a task that has ended is not run again in the cycle.
C6_OneTaskPerHost ==
    [][/\ orch' = "draining"
          => /\ \A h \in Configured : OneTaskFor(h)'
             /\ \A i \in DOMAIN task' : task'[i].hostname \in Configured
       /\ (orch = "draining" /\ orch' = "draining")
          => \A i \in Tasks : task[i].pc \in EndedPcs => task'[i] = task[i]
      ]_vars

\* A cycle over several hosts has been drained, one of them skipped.
C6_Witness ==
    /\ orch = "sleeping"
    /\ hostnames = HostList
    /\ \E i \in Tasks : task[i].pc = "skipped"
    /\ \E i \in Tasks : task[i].pc = "done"

\* C7: from the construction of the PollingAgent until the first cycle is
\* dispatched the cache directory exists and a read of it returns nothing.
C7_ResetEmpties == (orch # "new" /\ cycle = 0) => (dirExists /\ ReadAll = {})

\* The agent has been constructed and no cycle has been dispatched.
C7_Witness == orch = "dispatching" /\ cycle = 0 /\ ReadAll = {}

\* C8: when the open or the write of the scratch file or the rename raises,
\* the cache file of the host is what it was when the task began.
C8_FailedWriteKeepsEntry ==
    \A i \in Tasks :
        (task[i].pc = "failed" /\ task[i].at \in {"open", "write", "rename"})
        => cache[task[i].hostname] = task[i].prior

\* The rename of a task raised while the cache held the host's snapshot of
\* the cycle before.
C8_Witness ==
    \E i \in Tasks :
        /\ task[i].pc = "failed"
        /\ task[i].at = "rename"
        /\ task[i].prior = Complete(1)
        /\ cycle = 2
        /\ cache[task[i].hostname] = Complete(1)

\* C9: a host skipped or failed in a cycle has its task begun again in the
\* next cycle, and the agent comes back to dispatching for ever.
C9_RetriedNextCycle ==
    /\ \A i \in 1..Len(HostList) : \A k \in 1..(MaxCycle - 1) :
          (i \in Tasks /\ cycle = k /\ task[i].pc \in {"skipped", "failed"})
          ~> (i \in Tasks /\ cycle = k + 1 /\ task[i].pc \in RunningPcs)
    /\ []<>(orch = "dispatching")

\* C10: the sleep after a drained cycle lasts the polling interval of the
\* effective configuration.
C10_SleepsConfiguredInterval ==
    orch = "sleeping" => slept = polling_interval_of(polling_interval)

(***************************************************************************)
(* Properties of the installer, the search route and the scratch files.    *)
(***************************************************************************)
\* The fragments of the directories in processing order: the directories in
\* the order of the list, the files of each in the order they are read.
RECURSIVE FilesFrom(_, _)
FilesFrom(directories, k) ==
    IF k > Len(directories) THEN <<>>
    ELSE directories[k].files \o FilesFrom(directories, k + 1)

RECURSIVE HostnamesOf(_)
HostnamesOf(files) ==
    IF files = <<>> THEN <<>>
    ELSE (IF "main" \in DOMAIN Head(files)
             /\ "hostnames" \in DOMAIN Head(files)["main"]
          THEN Head(files)["main"].hostnames ELSE <<>>)
         \o HostnamesOf(Tail(files))

RECURSIVE GroupsOf(_)
GroupsOf(files) ==
    IF files = <<>> THEN <<>>
    ELSE (IF "snmp_groups" \in DOMAIN Head(files)
          THEN Head(files)["snmp_groups"] ELSE <<>>)
         \o GroupsOf(Tail(files))

HasMain(directories) ==
    \E k \in DOMAIN FilesFrom(directories, 1) :
        "main" \in DOMAIN FilesFrom(directories, 1)[k]

NoDuplicate(list) ==
    \A i, j \in DOMAIN list : list[i] = list[j] => i = j

\* list is all, with the first occurrence of every element kept.
FirstOccurrences(list, all) ==
    /\ NoDuplicate(list)
    /\ \A k \in DOMAIN all : Holds(list, all[k])
    /\ \A i \in DOMAIN list : Holds(all, list[i])
    /\ \A i, j \in DOMAIN list :
          i < j => \E k \in DOMAIN all :
                      /\ all[k] = list[i]
                      /\ \A m \in 1..k : all[m] # list[j]

\* C11: the resolved main.hostnames holds no entry twice and is the
\* hostnames of the fragments in processing order, the first occurrence of
\* each kept.
C11_HostnamesFirstSeen ==
    \A k \in DOMAIN inst.resolved :
        FirstOccurrences(inst.resolved[k].config_dict["main"].hostnames,
                         HostnamesOf(FilesFrom(inst.resolved[k].directories, 1)))

\* A group of the list has the name.
Named(list, name) == \E k \in DOMAIN list : list[k].group_name = name

\* The first group of the list with the group_name of item.
FirstNamed(all, item) ==
    all[CHOOSE k \in DOMAIN all :
            /\ all[k].group_name = item.group_name
            /\ \A m \in 1..(k - 1) : all[m].group_name # item.group_name]

\* groups holds, for every group_name of all, the first group of that name,
\* in the order of all.
FirstByName(groups, all) ==
    /\ \A i, j \in DOMAIN groups :
          groups[i].group_name = groups[j].group_name => i = j
    /\ \A k \in DOMAIN all : Named(groups, all[k].group_name)
    /\ \A i \in DOMAIN groups :
          /\ Named(all, groups[i].group_name)
          /\ groups[i] = FirstNamed(all, groups[i])
    /\ \A i, j \in DOMAIN groups :
          i < j => \E k \in DOMAIN all :
                      /\ all[k] = groups[i]
                      /\ \A m \in 1..k :
                            all[m].group_name # groups[j].group_name

C13_Deterministic ==
    \A i, j \in DOMAIN inst.resolved :
        inst.resolved[i].directories = inst.resolved[j].directories
        => inst.resolved[i].config_dict = inst.resolved[j].config_dict

\* Two resolutions of directories whose main section holds a scalar and
\* hostnames, and which hold groups.
C13_Witness ==
    /\ Len(inst.resolved) = 2
    /\ inst.resolved[1].directories = inst.resolved[2].directories
    /\ LET read == directory_dict(inst.resolved[1].directories) IN
       /\ DOMAIN read = {"main", "snmp_groups"}
       /\ DOMAIN read["main"] = {"hostnames", "log_level"}
       /\ read["main"].hostnames # <<>>

HasOtherList(directories) ==
    \E k \in DOMAIN FilesFrom(directories, 1) :
        LET file == FilesFrom(directories, 1)[k] IN
        \/ DOMAIN file \ {"main", "snmp_groups"} # {}
        \/ /\ "main" \in DOMAIN file
           /\ \E sub_key \in DOMAIN file["main"] :
                 IsList(sub_key) /\ sub_key # "hostnames"

C15_EmptyTermNoScan ==
    (/\ web.pc = "rendered"
     /\ "search_term" \in DOMAIN web.form
     /\ strip(web.form["search_term"]) = <<>>)
    => (web.found = <<>> /\ web.devices = <<>>)

\* The ifindexes the matches of find() give for a hostname, in their order.
RECURSIVE IfindexesOf(_, _)
IfindexesOf(result, hostname) ==
    IF result = <<>> THEN <<>>
    ELSE (IF hostname \in DOMAIN Head(result)
          THEN <<Head(result)[hostname]>> ELSE <<>>)
         \o IfindexesOf(Tail(result), hostname)

\* C16: the result maps every hostname with a match to its matching
\* ifindexes, none twice and in first-seen order, and has no other key.
C16_IndicesCoalesced ==
    web.pc = "rendered"
    => /\ DOMAIN web.devices
              = UNION {DOMAIN web.result[k] : k \in DOMAIN web.result}
       /\ \A h \in DOMAIN web.devices :
             FirstOccurrences(web.devices[h], IfindexesOf(web.result, h))

\* C17: no two tasks of a cycle that a worker has taken are for the same
\* hostname, so no two of them rename into the same cache file.
C17_DisjointCacheFiles ==
    \A i, j \in Tasks :
        (i # j /\ task[i].pc # "queued" /\ task[j].pc # "queued")
        => task[i].hostname # task[j].hostname

\* Two workers are about to rename their scratch files at the same time.
C17_Witness ==
    \E i, j \in InFlight :
        i # j /\ task[i].pc = "rename" /\ task[j].pc = "rename"

\* C18: once the task of a host has ended, done or failed, its scratch
\* directory and its scratch file are gone.
C18_NoScratchLeft ==
    \A i \in Tasks :
        task[i].pc \in {"done", "failed"}
        => (~tmpdir[i] /\ tmpfile[i] = Absent)

\* The tasks of the current cycle whose Poller has built its configuration
\* objects.
Constructed ==
    {i \in Tasks :
        \/ task[i].pc \in (RunningPcs \ {"init"}) \cup {"done", "skipped", "failed"}
        \/ task[i].pc = "killed" /\ task[i].at # "init"}

Resolved == inst.resolved[Len(inst.resolved)].directories

\* C20 as claimed: write leaves config.yaml as the one fragment of the first
\* directory, and the other directories as they were.
C20_WriteFirstDirectoryOnly ==
    inst.pc = "written"
    => /\ inst.directories[1].files = <<config_yaml(inst.config_dict)>>
       /\ \A k \in DOMAIN inst.directories :
             k > 1 => inst.directories[k] = Resolved[k]

\* C20: write removes the fragments of every configuration directory, and
\* leaves config.yaml with the resolved configuration as the one fragment
\* of the first directory when that directory exists.
C20_WriteAllDirectories ==
    inst.pc \in {"written", "crashed"}
    => /\ \A k \in DOMAIN inst.directories :
             k > 1 => inst.directories[k].files = <<>>
       /\ inst.directories[1].files =
             IF inst.pc = "written"
             THEN <<config_yaml(inst.config_dict)>> ELSE <<>>

\* A write after a resolution of two directories with fragments.
C20_Witness ==
    /\ inst.pc = "written"
    /\ \A k \in DOMAIN Resolved : Resolved[k].files # <<>>
    /\ inst.directories[1].files[1]["main"].hostnames
          = inst.config_dict["main"].hostnames

(***************************************************************************)
(* Properties of the other lists, of the cache entries and of the round    *)
(* trip of the configuration.                                              *)
(***************************************************************************)
\* The lists the fragments hold for a key of main, one after the other in
\* processing order.
RECURSIVE MainListOf(_, _)
MainListOf(files, sub_key) ==
    IF files = <<>> THEN <<>>
    ELSE (IF "main" \in DOMAIN Head(files)
             /\ sub_key \in DOMAIN Head(files)["main"]
          THEN Head(files)["main"][sub_key] ELSE <<>>)
         \o MainListOf(Tail(files), sub_key)

\* The lists the fragments hold for a top-level key.
RECURSIVE TopListOf(_, _)
TopListOf(files, file_key) ==
    IF files = <<>> THEN <<>>
    ELSE (IF file_key \in DOMAIN Head(files)
          THEN Head(files)[file_key] ELSE <<>>)
         \o TopListOf(Tail(files), file_key)

\* C21: with fragments that hold a list other than main.hostnames and
\* snmp_groups the resolution succeeds, and the resolved value of the field
\* is its lists one after the other in processing order, duplicates kept.
C21_OtherListsConcatenated ==
    /\ inst.pc # "raised"
    /\ \A k \in DOMAIN inst.resolved :
          LET files == FilesFrom(inst.resolved[k].directories, 1)
              config_dict == inst.resolved[k].config_dict IN
          /\ MainListOf(files, "extra_list") # <<>>
             => /\ "extra_list" \in DOMAIN config_dict["main"]
                /\ config_dict["main"]["extra_list"]
                      = MainListOf(files, "extra_list")
          /\ TopListOf(files, "extra_lists") # <<>>
             => /\ "extra_lists" \in DOMAIN config_dict
                /\ config_dict["extra_lists"] = TopListOf(files, "extra_lists")

\* C22: once the agent is constructed, a host with a complete cache file
\* keeps a complete one in every step; the file changes only by the rename
\* of a task of that host; and the file of a host whose task was skipped,
\* or failed before its rename, is what it was when the task began.
C22_EntriesNeverRemoved ==
    [][(orch # "new")
       => /\ \A h \in AllHosts :
                /\ cache[h].kind = "complete" => cache'[h].kind = "complete"
                /\ cache'[h] # cache[h]
                   => \E i \in Tasks :
                         /\ task[i].hostname = h
                         /\ task[i].pc = "rename"
                         /\ task'[i].pc = "rmdir"
                         /\ cache'[h] = Complete(task[i].data)
          /\ \A i \in DOMAIN task' :
                (\/ task'[i].pc = "skipped"
                 \/ task'[i].pc = "failed" /\ task'[i].at # "rmdir")
                => cache'[task'[i].hostname] = task'[i].prior]_vars

\* In the second cycle one host was skipped and the task of another failed
\* at the collection; both have the snapshot of the first cycle.
C22_Witness ==
    /\ cycle = 2
    /\ \E i, j \in Tasks :
          /\ task[i].pc = "skipped"
          /\ cache[task[i].hostname] = Complete(1)
          /\ task[j].pc = "failed"
          /\ task[j].at = "everything"
          /\ cache[task[j].hostname] = Complete(1)

\* C23: a resolution made from the directories a write has left gives the
\* configuration of the resolution that was written, and it does not raise.
C23_RoundTripFixedPoint ==
    /\ inst.pc = "raised" => inst.resolved = <<>>
    /\ \A k \in DOMAIN inst.resolved :
          (k > 1
           /\ inst.resolved[k].directories # inst.resolved[k - 1].directories)
          => inst.resolved[k].config_dict = inst.resolved[k - 1].config_dict

\* A configuration resolved from two directories with hostnames and groups
\* was written, and resolved again from config.yaml alone.
C23_Witness ==
    /\ inst.pc = "resolved"
    /\ Len(inst.resolved) = 2
    /\ \A k \in DOMAIN inst.resolved[1].directories :
          /\ Len(inst.resolved[1].directories[k].files) = 1
          /\ DOMAIN inst.resolved[1].directories[k].files[1]
                = {"main", "snmp_groups"}
    /\ inst.resolved[2].directories[1].files
          = <<config_yaml(inst.resolved[1].config_dict)>>
    /\ inst.resolved[2].directories[2].files = <<>>
    /\ Len(inst.resolved[1].config_dict["main"].hostnames) > 3

====
